---- MODULE Spec2Model ----
(***************************************************************************)
(* Model of contrib/ivshmem-server/ivshmem-server.c: the peer registry,    *)
(* the connection handshake, the disconnection broadcast, the dispatch     *)
(* cycle, the server lifecycle and the shared-memory sizing loop.          *)
(*                                                                         *)
(* Descriptors are small integers handed out lowest-free-first, as the     *)
(* kernel does.  Every handler is one atomic action (the server is single- *)
(* threaded); the system calls a handler makes are logged, in order, in    *)
(* `trace`, which holds the log of the handler that ran last.              *)
(***************************************************************************)
EXTENDS Integers, Sequences, FiniteSets, TLC

VARIABLES
    pc,         \* where the caller is: "init", "select", "handled", "closed", "crashed"
    sock_fd,    \* server->sock_fd
    shm_fd,     \* server->shm_fd
    cur_id,     \* server->cur_id
    peer_list,  \* server->peer_list, in list order: records [id, sock_fd, vectors]
    open,       \* the descriptors open in the process
    errno,      \* the C library's errno
    trace,      \* the system calls of the handler that ran last, in order
    ret,        \* the value the handler that ran last returned
    fds,        \* the fd_set passed to the last ivshmem_server_handle_fds
    maxfd,      \* the maxfd passed to the last ivshmem_server_handle_fds
    departed,   \* history: ids of the peers ivshmem_server_free_peer has freed
    accepted,   \* history: number of connections accept4 has returned
    n_vectors,  \* server->n_vectors
    advertised, \* history, kept in SpecNoLoss: <<socket, id, eventfd>> for each
                \* advertisement sent on an open peer socket and not followed
                \* there by a notice for that id
    t_pc,       \* ivshmem_server_ftruncate: "off", "entry", "loop", "ok", "fail"
    t_req,      \* ivshmem_server_ftruncate: the shmsize argument
    t_size      \* ivshmem_server_ftruncate: the local shmsize

srv_vars == <<pc, sock_fd, shm_fd, cur_id, peer_list, open, errno, trace, ret,
              fds, maxfd, departed, accepted, n_vectors, advertised>>
trunc_vars == <<t_pc, t_req, t_size>>
vars == <<pc, sock_fd, shm_fd, cur_id, peer_list, open, errno, trace, ret,
          fds, maxfd, departed, accepted, n_vectors, advertised,
          t_pc, t_req, t_size>>

(***************************************************************************)
(* Bounds of the model.                                                    *)
(***************************************************************************)
\* highest descriptor number the process may hold (RLIMIT_NOFILE - 1)
MaxFd == 11
\* ivshmem_server_handle_new_conn is not entered once cur_id has reached this
MaxCurId == 3
\* most size rejections by the storage that ivshmem_server_start meets
MaxRejects == 2
\* largest n_vectors the server is configured with
MaxVectors == 2

(***************************************************************************)
(* 32-bit unsigned arithmetic.  TLC's integers are narrower than the       *)
(* values involved, so an unsigned is the set of its one bits (bit 0 is    *)
(* the least significant); every operation below is exact modulo 2^32.     *)
(***************************************************************************)
UnsignedBits == 32

SetMax(S) == CHOOSE x \in S : \A y \in S : y <= x
SetMin(S) == CHOOSE x \in S : \A y \in S : x <= y

\* u - 1 (0 wraps to 2^32 - 1)
BvDec(u) ==
    IF u = {} THEN 0 .. (UnsignedBits - 1)
    ELSE (u \ {SetMin(u)}) \cup (0 .. (SetMin(u) - 1))

\* u + 1 (2^32 - 1 wraps to 0)
BvInc(u) ==
    LET zeros == (0 .. (UnsignedBits - 1)) \ u
    IN  IF zeros = {} THEN {}
        ELSE {b \in u : b > SetMin(zeros)} \cup {SetMin(zeros)}

\* u >> k
BvShr(u, k) == {b - k : b \in {c \in u : c >= k}}

\* u * 2
BvDouble(u) == {b + 1 : b \in {c \in u : c + 1 < UnsignedBits}}

\* u <= v
BvLeq(u, v) ==
    LET diff == (u \ v) \cup (v \ u)
    IN  IF diff = {} THEN TRUE ELSE SetMax(diff) \in v

\* "maximum size of a huge page": 1024 * 1024 * 1024 = 2^30
MaxHugepageBit == 30
IVSHMEM_SERVER_MAX_HUGEPAGE_SIZE == {MaxHugepageBit}

(***************************************************************************)
(* ivshmem_server_ftruncate                                                *)
(***************************************************************************)
\* "align shmsize to next power of 2"
FtruncateAlign(shmsize) ==
    LET s0 == BvDec(shmsize)
        s1 == s0 \cup BvShr(s0, 1)
        s2 == s1 \cup BvShr(s1, 2)
        s3 == s2 \cup BvShr(s2, 4)
        s4 == s3 \cup BvShr(s3, 8)
        s5 == s4 \cup BvShr(s4, 16)
    IN  BvInc(s5)

\* the loop of ivshmem_server_ftruncate from candidate size `size`, the
\* storage rejecting the first `rej` sizes it is offered: the function's
\* result and the number of ftruncate calls made
RECURSIVE FtruncateLoop(_, _)
FtruncateLoop(size, rej) ==
    IF ~BvLeq(size, IVSHMEM_SERVER_MAX_HUGEPAGE_SIZE) THEN -1
    ELSE IF rej = 0 THEN 0
    ELSE FtruncateLoop(BvDouble(size), rej - 1)

\* the requested sizes the sizing loop is run on: 0, every power of two of
\* an unsigned, its predecessor and its successor
TruncInputs ==
    {{}} \cup {{k} : k \in 0 .. (UnsignedBits - 1)}
         \cup {{0, k} : k \in 1 .. (UnsignedBits - 1)}
         \cup {0 .. k : k \in 0 .. (UnsignedBits - 1)}

\* entry of the function up to the loop head
ftruncate_align ==
    /\ t_pc = "entry"
    /\ t_size' = FtruncateAlign(t_req)
    /\ t_pc' = "loop"
    /\ UNCHANGED <<t_req, srv_vars>>

\* one pass of the loop in which ftruncate() accepts the size
ftruncate_accept ==
    /\ t_pc = "loop"
    /\ BvLeq(t_size, IVSHMEM_SERVER_MAX_HUGEPAGE_SIZE)
    /\ t_pc' = "ok"
    /\ UNCHANGED <<t_req, t_size, srv_vars>>

\* one pass of the loop in which ftruncate() rejects the size
ftruncate_reject ==
    /\ t_pc = "loop"
    /\ BvLeq(t_size, IVSHMEM_SERVER_MAX_HUGEPAGE_SIZE)
    /\ t_size' = BvDouble(t_size)
    /\ UNCHANGED <<t_pc, t_req, srv_vars>>

\* the loop condition is false: return -1
ftruncate_giveup ==
    /\ t_pc = "loop"
    /\ ~BvLeq(t_size, IVSHMEM_SERVER_MAX_HUGEPAGE_SIZE)
    /\ t_pc' = "fail"
    /\ UNCHANGED <<t_req, t_size, srv_vars>>

(***************************************************************************)
(* Descriptors, errno, the system-call log                                 *)
(***************************************************************************)
\* stdin, stdout and stderr are open throughout
StdFds == {0, 1, 2}

FreeFds(O) == (0 .. MaxFd) \ O

\* the n lowest descriptors not in O, ascending (fewer when fewer are free)
RECURSIVE LowestFree(_, _)
LowestFree(O, n) ==
    IF n = 0 \/ FreeFds(O) = {} THEN <<>>
    ELSE <<SetMin(FreeFds(O))>> \o LowestFree(O \cup {SetMin(FreeFds(O))}, n - 1)

Range(q) == {q[i] : i \in 1 .. Len(q)}
Reverse(q) == [i \in 1 .. Len(q) |-> q[Len(q) + 1 - i]]

\* sizeof(peer_id): the payload of every message is one long
PayloadWidth == 8

\* IVSHMEM_PROTOCOL_VERSION comes from ivshmem-server.h
IVSHMEM_PROTOCOL_VERSION == 0

\* one logged call.  op "send": sendmsg(sock, {val, fd}) returned ret and
\* ivshmem_server_send_one_msg returned res.  op "close": close(fd) returned
\* ret.  op "accept", "eventfd", "shm_open", "socket": the call returned fd.
\* op "insert", "remove": the peer (val = id, sock = its socket) entered or
\* left peer_list.  op "id": val was assigned as the new peer's id.
Ev(op, sock, val, fd, r, res) ==
    [op |-> op, sock |-> sock, val |-> val, fd |-> fd, ret |-> r, res |-> res]

\* close(fd) with O open: EBADF when fd is not open
CloseEv(fd, O) ==
    Ev("close", -1, -1, fd, IF fd \in O THEN 0 ELSE -1, IF fd \in O THEN 0 ELSE -1)

\* close() of each descriptor of q in turn, starting with O open
RECURSIVE CloseAll(_, _)
CloseAll(q, O) ==
    IF q = <<>> THEN <<>>
    ELSE <<CloseEv(Head(q), O)>> \o CloseAll(Tail(q), O \ {Head(q)})

(***************************************************************************)
(* What sendmsg returns.  The environment is described by a fault: the     *)
(* k-th sendmsg of a handler returns r, with errno e when r = -1; if burst *)
(* (the socket buffer stays full) so does every later one; all others      *)
(* transfer the whole payload.                                             *)
(***************************************************************************)
NoFault == [k |-> 0, r |-> PayloadWidth, e |-> "EAGAIN", burst |-> FALSE]

\* what a sendmsg that does not transfer the whole payload returns: an
\* error, nothing written, the shortest and the longest partial write
ShortRets == {-1, 0, 1, PayloadWidth - 1}

Faults(n) ==
    {NoFault}
    \cup {[k |-> k, r |-> r, e |-> "EAGAIN", burst |-> FALSE] :
            k \in 1 .. n, r \in ShortRets}
    \cup {[k |-> k, r |-> -1, e |-> "EAGAIN", burst |-> TRUE] : k \in 1 .. n}
    \cup {[k |-> k, r |-> -1, e |-> "EINTR", burst |-> FALSE] : k \in 1 .. n}

SendmsgRet(o, i) ==
    IF o.k # 0 /\ (i = o.k \/ (o.burst /\ i > o.k)) THEN o.r ELSE PayloadWidth

(***************************************************************************)
(* ivshmem_server_send_one_msg                                             *)
(***************************************************************************)
\* the function's result, from what sendmsg returned
send_one_msg_result(r) == IF r <= 0 THEN -1 ELSE 0

\* the i-th send of a handler, under fault o
ivshmem_server_send_one_msg(sock, val, fd, o, i) ==
    Ev("send", sock, val, fd, SendmsgRet(o, i), send_one_msg_result(SendmsgRet(o, i)))

\* errno after the calls logged in tr, e being what a failing sendmsg sets
ErrnoAfter(old, tr, e) ==
    IF \E i \in 1 .. Len(tr) : tr[i].op = "send" /\ tr[i].ret = -1 THEN e ELSE old

NumSends(tr) == Cardinality({i \in 1 .. Len(tr) : tr[i].op = "send"})

(***************************************************************************)
(* ivshmem_server_search_peer                                              *)
(***************************************************************************)
\* the position in list of the first peer with this id, 0 for NULL
ivshmem_server_search_peer(list, peer_id) ==
    IF \E i \in 1 .. Len(list) : list[i].id = peer_id
    THEN SetMin({i \in 1 .. Len(list) : list[i].id = peer_id})
    ELSE 0

\* QTAILQ_REMOVE of the element at position i
ListRemove(list, i) == [j \in 1 .. (Len(list) - 1) |-> IF j < i THEN list[j] ELSE list[j + 1]]

(***************************************************************************)
(* ivshmem_server_free_peer                                                *)
(* st has the fields list, open and trace: the registry, the open          *)
(* descriptors and the log so far; the result is st after the call.        *)
(***************************************************************************)
\* a slip: the last peer of the list is not told
AdvertiseDeletionButLast(rest, peer, o, n0) ==
    [j \in 1 .. (Len(rest) - 1) |->
        ivshmem_server_send_one_msg(rest[j].sock_fd, peer.id, -1, o, n0 + j)]

\* "advertise the deletion to other peers": rest is the list after the
\* QTAILQ_REMOVE, n0 the number of sends made before
AdvertiseDeletion(rest, peer, o, n0) ==
    [j \in 1 .. Len(rest) |->
        ivshmem_server_send_one_msg(rest[j].sock_fd, peer.id, -1, o, n0 + j)]

\* a slip: the eventfds are closed before the deletion is advertised
FreePeerLogCloseFirst(st, peer, o, rest) ==
    <<CloseEv(peer.sock_fd, st.open), Ev("remove", peer.sock_fd, peer.id, -1, 0, 0)>>
        \o CloseAll(peer.vectors, st.open \ {peer.sock_fd})
        \o AdvertiseDeletion(rest, peer, o, NumSends(st.trace))

\* the calls of the function, in its order, rest being the list once the
\* peer is unlinked
FreePeerLog(st, peer, o, rest) ==
    <<CloseEv(peer.sock_fd, st.open), Ev("remove", peer.sock_fd, peer.id, -1, 0, 0)>>
        \o AdvertiseDeletion(rest, peer, o, NumSends(st.trace))
        \o CloseAll(peer.vectors, st.open \ {peer.sock_fd})

\* the list without the peer (a record that is not in the list unlinks nothing)
Unlink(list, peer) ==
    IF \E i \in 1 .. Len(list) : list[i] = peer
    THEN ListRemove(list, ivshmem_server_search_peer(list, peer.id))
    ELSE list

ivshmem_server_free_peer(st, peer, o) ==
    [list  |-> Unlink(st.list, peer),
     open  |-> (st.open \ {peer.sock_fd}) \ Range(peer.vectors),
     trace |-> st.trace \o FreePeerLog(st, peer, o, Unlink(st.list, peer))]

(***************************************************************************)
(* ivshmem_server_send_initial_info                                        *)
(***************************************************************************)
\* a slip: the peer id goes out before the protocol version
InitialInfoIdFirst(peer) ==
    << [val |-> peer.id,                  fd |-> -1],
       [val |-> IVSHMEM_PROTOCOL_VERSION, fd |-> -1],
       [val |-> -1,                       fd |-> shm_fd] >>

\* the three messages, in the order the function sends them
InitialInfo(peer) ==
    << [val |-> IVSHMEM_PROTOCOL_VERSION, fd |-> -1],
       [val |-> peer.id,                  fd |-> -1],
       [val |-> -1,                       fd |-> shm_fd] >>

\* the three sends, n0 sends having been made before
InitialSends(peer, o, n0) ==
    [j \in 1 .. 3 |->
        ivshmem_server_send_one_msg(peer.sock_fd, InitialInfo(peer)[j].val,
                                    InitialInfo(peer)[j].fd, o, n0 + j)]

\* the function returns -1 at the first send that fails, so that send is
\* the last one made
UpToFirstFailure(all) ==
    IF \E j \in 1 .. Len(all) : all[j].res < 0
    THEN SubSeq(all, 1, SetMin({j \in 1 .. Len(all) : all[j].res < 0}))
    ELSE all

\* the sends the function makes
ivshmem_server_send_initial_info(peer, o, n0) ==
    UpToFirstFailure(InitialSends(peer, o, n0))

\* the function's result, from the sends it made
InitialInfoResult(sent) == IF sent[Len(sent)].res < 0 THEN -1 ELSE 0

(***************************************************************************)
(* ivshmem_server_handle_new_conn                                          *)
(***************************************************************************)
\* a slip: the id is the number of registered peers
AllocIdByCount(list, cid) == Len(list)

\* another policy: the lowest id no registered peer holds
AllocIdLowestUnused(list, cid) ==
    SetMin({c \in 0 .. Len(list) : ivshmem_server_search_peer(list, c) = 0})

\* "get an unused peer id": the probe from cur_id
RECURSIVE AllocId(_, _)
AllocId(list, cid) ==
    IF ivshmem_server_search_peer(list, cid) # 0 THEN AllocId(list, cid + 1) ELSE cid

\* a slip: the first vector is sent every time
AdvertiseNewFirstOnly(list, peer, o, n0) ==
    [q \in 1 .. (Len(list) * Len(peer.vectors)) |->
        ivshmem_server_send_one_msg(
            list[((q - 1) \div Len(peer.vectors)) + 1].sock_fd,
            peer.id,
            peer.vectors[1],
            o, n0 + q)]

\* "advertise the new peer to others"
AdvertiseNew(list, peer, o, n0) ==
    [q \in 1 .. (Len(list) * Len(peer.vectors)) |->
        ivshmem_server_send_one_msg(
            list[((q - 1) \div Len(peer.vectors)) + 1].sock_fd,
            peer.id,
            peer.vectors[((q - 1) % Len(peer.vectors)) + 1],
            o, n0 + q)]

\* a slip: the other peers are advertised on their own sockets
AdvertiseOthersToThem(list, peer, o, n0) ==
    [q \in 1 .. (Len(list) * Len(peer.vectors)) |->
        ivshmem_server_send_one_msg(
            list[((q - 1) \div Len(peer.vectors)) + 1].sock_fd,
            list[((q - 1) \div Len(peer.vectors)) + 1].id,
            list[((q - 1) \div Len(peer.vectors)) + 1].vectors[((q - 1) % Len(peer.vectors)) + 1],
            o, n0 + q)]

\* "advertise the other peers to the new one"
AdvertiseOthers(list, peer, o, n0) ==
    [q \in 1 .. (Len(list) * Len(peer.vectors)) |->
        ivshmem_server_send_one_msg(
            peer.sock_fd,
            list[((q - 1) \div Len(peer.vectors)) + 1].id,
            list[((q - 1) \div Len(peer.vectors)) + 1].vectors[((q - 1) % Len(peer.vectors)) + 1],
            o, n0 + q)]

\* "advertise the new peer to itself"
AdvertiseSelf(peer, o, n0) ==
    [q \in 1 .. Len(peer.vectors) |->
        ivshmem_server_send_one_msg(peer.sock_fd, peer.id, peer.vectors[q], o, n0 + q)]

\* a slip: the others are advertised to the new peer before the new peer
\* is advertised to them
AdvertiseOthersFirst(list, peer, o, n0) ==
    AdvertiseOthers(list, peer, o, n0)
        \o AdvertiseNew(list, peer, o, n0 + Len(list) * Len(peer.vectors))
        \o AdvertiseSelf(peer, o, n0 + 2 * Len(list) * Len(peer.vectors))

\* the three advertisement loops, one after the other
Advertise(list, peer, o, n0) ==
    AdvertiseNew(list, peer, o, n0)
        \o AdvertiseOthers(list, peer, o, n0 + Len(list) * Len(peer.vectors))
        \o AdvertiseSelf(peer, o, n0 + 2 * Len(list) * Len(peer.vectors))

\* a slip: "while (--i)", which leaves vectors[0] open
FailUnwindSkipFirst(created, newfd, O) ==
    CloseAll(Reverse(IF created = <<>> THEN <<>> ELSE Tail(created)) \o <<newfd>>, O)

\* the fail: label, the eventfds of `created` having been created: close
\* vectors[i-1] .. vectors[0], then the new socket
FailUnwind(created, newfd, O) ==
    CloseAll(Reverse(created) \o <<newfd>>, O)

\* the descriptors the close() calls logged in tr name
ClosedBy(tr) == {tr[i].fd : i \in {j \in 1 .. Len(tr) : tr[j].op = "close"}}

\* accept4, the id and the eventfd calls that returned a descriptor
AcceptLog(peer) ==
    <<Ev("accept", sock_fd, -1, peer.sock_fd, peer.sock_fd, peer.sock_fd),
      Ev("id", peer.sock_fd, peer.id, -1, 0, 0)>>
        \o [j \in 1 .. Len(peer.vectors) |->
              Ev("eventfd", -1, -1, peer.vectors[j], peer.vectors[j], peer.vectors[j])]

\* a slip: an aborted handshake gives its id back
NewConnFailKeepsCounter(st, peer, err, log, unwind) ==
    [list |-> st.list, cur_id |-> peer.id, errno |-> err, ret |-> -1,
     open |-> ((st.open \cup {peer.sock_fd}) \cup Range(peer.vectors)) \ ClosedBy(unwind),
     trace |-> st.trace \o log \o unwind]

\* the function returns -1 through fail:, having logged `log` before it
NewConnFail(st, peer, err, log, unwind) ==
    [list |-> st.list, cur_id |-> peer.id + 1, errno |-> err, ret |-> -1,
     open |-> ((st.open \cup {peer.sock_fd}) \cup Range(peer.vectors)) \ ClosedBy(unwind),
     trace |-> st.trace \o log \o unwind]

\* the function returns 0, having made the sends `sent`
NewConnDone(st, peer, err, o, sent) ==
    [list |-> Append(st.list, peer), cur_id |-> peer.id + 1,
     errno |-> ErrnoAfter(err, sent, o.e), ret |-> 0,
     open |-> (st.open \cup {peer.sock_fd}) \cup Range(peer.vectors),
     trace |-> st.trace \o AcceptLog(peer) \o sent
                  \o <<Ev("insert", peer.sock_fd, peer.id, -1, 0, 0)>>]

\* from "send peer id and shm fd" on, ini being the sends of
\* ivshmem_server_send_initial_info
NewConnInfo(st, peer, err, o, ini) ==
    IF InitialInfoResult(ini) < 0
    THEN NewConnFail(st, peer, ErrnoAfter(err, ini, o.e), AcceptLog(peer) \o ini,
                     FailUnwind(peer.vectors, peer.sock_fd,
                                (st.open \cup {peer.sock_fd}) \cup Range(peer.vectors)))
    ELSE NewConnDone(st, peer, err, o,
                     ini \o Advertise(st.list, peer, o, NumSends(st.trace) + Len(ini)))

\* from the end of the eventfd loop on; peer.vectors holds the eventfds that
\* were created, fewer than n_vectors when one failed
NewConnCreated(st, peer, err, o) ==
    IF Len(peer.vectors) < n_vectors
    THEN NewConnFail(st, peer, "EMFILE",
                     AcceptLog(peer) \o <<Ev("eventfd", -1, -1, -1, -1, -1)>>,
                     FailUnwind(peer.vectors, peer.sock_fd,
                                (st.open \cup {peer.sock_fd}) \cup Range(peer.vectors)))
    ELSE NewConnInfo(st, peer, err, o,
                     ivshmem_server_send_initial_info(peer, o, NumSends(st.trace)))

\* from the successful accept4 on: newfd is the lowest free descriptor, the
\* eventfds the next lowest ones
NewConnAccepted(st, newfd, id, err, evfail, o) ==
    NewConnCreated(st,
                   [id |-> id, sock_fd |-> newfd,
                    vectors |-> LowestFree(st.open \cup {newfd},
                                           IF evfail > 0 THEN evfail - 1 ELSE n_vectors)],
                   err, o)

\* st: list, open, trace; cid = cur_id; err = errno.
\* acc: what accept4 does ("ok", or the errno it fails with).
\* evfail: the eventfd call that fails for want of memory (0: none); eventfd
\* also fails when the process has no descriptor left.
\* o: the sendmsg fault.
\* The result has the fields list, open, trace, cur_id, errno, ret.
ivshmem_server_handle_new_conn(st, cid, err, acc, evfail, o) ==
    IF acc # "ok" THEN
        [list |-> st.list, open |-> st.open, cur_id |-> cid, errno |-> acc, ret |-> -1,
         trace |-> st.trace \o <<Ev("accept", sock_fd, -1, -1, -1, -1)>>]
    ELSE NewConnAccepted(st, SetMin(FreeFds(st.open)), AllocId(st.list, cid),
                         err, evfail, o)

(***************************************************************************)
(* ivshmem_server_get_fds                                                  *)
(***************************************************************************)
\* the descriptors the function sets in fds
GetFds == {sock_fd} \cup {peer_list[i].sock_fd : i \in 1 .. Len(peer_list)}

\* *maxfd after the call, the caller having zeroed it
GetMaxFd == SetMax(GetFds) + 1

\* the caller goes back to select(): it builds the watch set anew, and the
\* log and result of the handler that ran are dropped
ivshmem_server_get_fds ==
    /\ pc \in {"started", "handled"}
    /\ pc' = "select"
    /\ trace' = <<>>
    /\ ret' = 0
    /\ fds' = {}
    /\ maxfd' = 0
    /\ UNCHANGED <<sock_fd, shm_fd, cur_id, peer_list, open, errno, departed,
                   accepted, n_vectors, advertised, trunc_vars>>

(***************************************************************************)
(* ivshmem_server_handle_fds                                               *)
(***************************************************************************)
\* a slip: after a removal the loop steps over the peer that followed
RECURSIVE SweepSkipsNext(_, _, _, _, _)
SweepSkipsNext(todo, st, R, mfd, o) ==
    IF todo = <<>> THEN st
    ELSE IF Head(todo).sock_fd < mfd /\ Head(todo).sock_fd \in R
         THEN SweepSkipsNext(IF Len(todo) > 1 THEN Tail(Tail(todo)) ELSE <<>>,
                             ivshmem_server_free_peer(st, Head(todo), o), R, mfd, o)
         ELSE SweepSkipsNext(Tail(todo), st, R, mfd, o)

\* the QTAILQ_FOREACH_SAFE loop over the peers `todo` still to visit
RECURSIVE Sweep(_, _, _, _, _)
Sweep(todo, st, R, mfd, o) ==
    IF todo = <<>> THEN st
    ELSE IF Head(todo).sock_fd < mfd /\ Head(todo).sock_fd \in R
         THEN Sweep(Tail(todo), ivshmem_server_free_peer(st, Head(todo), o), R, mfd, o)
         ELSE Sweep(Tail(todo), st, R, mfd, o)

\* the function returns 0 after the sweep that ended in sw
AfterSweep(sw, cid, err, o) ==
    [list |-> sw.list, open |-> sw.open, trace |-> sw.trace, cur_id |-> cid,
     errno |-> ErrnoAfter(err, sw.trace, o.e), ret |-> 0]

\* the function after ivshmem_server_handle_new_conn returned as nc says
AfterNewConn(nc, R, mfd, o) ==
    IF nc.ret < 0 /\ nc.errno # "EINTR"
    THEN [list |-> nc.list, open |-> nc.open, trace |-> nc.trace,
          cur_id |-> nc.cur_id, errno |-> nc.errno, ret |-> -1]
    ELSE AfterSweep(Sweep(nc.list, nc, R, mfd, o), nc.cur_id, nc.errno, o)

\* the whole function: list, open, trace, cur_id, errno, ret when it returns
HandleFds(R, mfd, acc, evfail, o) ==
    IF sock_fd < mfd /\ sock_fd \in R
    THEN AfterNewConn(
            ivshmem_server_handle_new_conn(
                [list |-> peer_list, open |-> open, trace |-> <<>>],
                cur_id, errno, acc, evfail, o),
            R, mfd, o)
    ELSE AfterSweep(
            Sweep(peer_list, [list |-> peer_list, open |-> open, trace |-> <<>>],
                  R, mfd, o),
            cur_id, errno, o)

\* the ids of the peers the calls logged in tr removed from the registry
RemovedBy(tr) == {tr[i].val : i \in {j \in 1 .. Len(tr) : tr[j].op = "remove"}}

\* the number of connections the accept4 calls logged in tr returned
AcceptedBy(tr) ==
    Cardinality({i \in 1 .. Len(tr) : tr[i].op = "accept" /\ tr[i].fd >= 0})

\* the state after a call that ends as the record h says
Handled(h, R, mfd) ==
    /\ pc' = "handled"
    /\ peer_list' = h.list
    /\ open' = h.open
    /\ trace' = h.trace
    /\ cur_id' = h.cur_id
    /\ errno' = h.errno
    /\ ret' = h.ret
    /\ fds' = R
    /\ maxfd' = mfd
    /\ departed' = departed \cup RemovedBy(h.trace)
    /\ accepted' = accepted + AcceptedBy(h.trace)
    /\ UNCHANGED <<sock_fd, shm_fd, n_vectors, trunc_vars>>

\* one call with these arguments and these answers of the kernel, under
\* each fault that can befall one of the n sends it makes
HandleFdsCall(R, mfd, acc, evfail, n) ==
    /\ \E o \in Faults(n) : Handled(HandleFds(R, mfd, acc, evfail, o), R, mfd)
    /\ UNCHANGED advertised

\* the listening socket is not ready (or not below maxfd): the sweep alone
handle_fds_peers ==
    /\ pc = "select"
    /\ \E R \in SUBSET GetFds, mfd \in {GetMaxFd - 1, GetMaxFd} :
        /\ ~(sock_fd < mfd /\ sock_fd \in R)
        /\ HandleFdsCall(R, mfd, "ok", 0,
                         Cardinality({i \in 1 .. Len(peer_list) :
                                        /\ peer_list[i].sock_fd < mfd
                                        /\ peer_list[i].sock_fd \in R}) * Len(peer_list))

\* the listening socket is ready and accept4 fails
handle_fds_accept_fails ==
    /\ pc = "select"
    /\ \E R \in SUBSET GetFds, mfd \in {GetMaxFd - 1, GetMaxFd} :
        /\ sock_fd < mfd /\ sock_fd \in R
        /\ \E acc \in {"EINTR", "EMFILE"} :
            HandleFdsCall(R, mfd, acc, 0,
                          IF acc = "EINTR"
                          THEN Cardinality({i \in 1 .. Len(peer_list) :
                                              /\ peer_list[i].sock_fd < mfd
                                              /\ peer_list[i].sock_fd \in R}) * Len(peer_list)
                          ELSE 0)

\* the listening socket is ready and accept4 returns a connection
handle_fds_accept ==
    /\ pc = "select"
    /\ cur_id < MaxCurId
    /\ FreeFds(open) # {}
    /\ \E R \in SUBSET GetFds, mfd \in {GetMaxFd - 1, GetMaxFd} :
        /\ sock_fd < mfd /\ sock_fd \in R
        /\ \E evfail \in 0 .. n_vectors :
            HandleFdsCall(R, mfd, "ok", evfail,
                          IF evfail > 0 THEN 0
                          ELSE 3 + n_vectors * (2 * Len(peer_list) + 1)
                                 + Cardinality({i \in 1 .. Len(peer_list) :
                                                  /\ peer_list[i].sock_fd < mfd
                                                  /\ peer_list[i].sock_fd \in R})
                                   * (Len(peer_list) + 1))

ivshmem_server_handle_fds ==
    \/ handle_fds_peers
    \/ handle_fds_accept_fails
    \/ handle_fds_accept

(***************************************************************************)
(* ivshmem_server_start                                                    *)
(***************************************************************************)
\* server->shm_size as configured: 512 MiB + 1
shm_size == {0, 29}

StartSteps == {"shm_open", "socket", "path", "bind", "listen", "none"}

\* the calls up to the step that fails; shm and sock are the descriptors
\* shm_open and socket return, ft the result of ivshmem_server_ftruncate
StartLog(f, shm, sock, ft) ==
    IF f = "shm_open" THEN <<Ev("shm_open", -1, -1, -1, -1, -1)>>
    ELSE <<Ev("shm_open", -1, -1, shm, shm, shm), Ev("ftruncate", -1, -1, shm, ft, ft)>> \o
        (IF ft < 0 THEN <<>>
         ELSE IF f = "socket" THEN <<Ev("socket", -1, -1, -1, -1, -1)>>
         ELSE <<Ev("socket", -1, -1, sock, sock, sock)>> \o
            (IF f = "path" THEN <<>>
             ELSE IF f = "bind" THEN <<Ev("bind", sock, -1, -1, -1, -1)>>
             ELSE IF f = "listen" THEN <<Ev("bind", sock, -1, -1, 0, 0),
                                         Ev("listen", sock, -1, -1, -1, -1)>>
             ELSE <<Ev("bind", sock, -1, -1, 0, 0), Ev("listen", sock, -1, -1, 0, 0)>>))

\* the descriptors the calls logged in tr opened
OpenedBy(tr) ==
    {tr[i].fd : i \in {j \in 1 .. Len(tr) :
                          tr[j].op \in {"shm_open", "socket"} /\ tr[j].fd >= 0}}

\* a slip: err_close_sock returns without falling through to err_close_shm
StartUnwindSockOnly(tr, shm, sock) ==
    IF sock \in OpenedBy(tr) THEN CloseAll(<<sock>>, open \cup OpenedBy(tr))
    ELSE IF shm \in OpenedBy(tr) THEN CloseAll(<<shm>>, open \cup OpenedBy(tr))
    ELSE <<>>

\* the labels err_close_sock and err_close_shm, after the calls logged in tr
StartUnwind(tr, shm, sock) ==
    IF sock \in OpenedBy(tr) THEN CloseAll(<<sock, shm>>, open \cup OpenedBy(tr))
    ELSE IF shm \in OpenedBy(tr) THEN CloseAll(<<shm>>, open \cup OpenedBy(tr))
    ELSE <<>>

\* the state after the call that logged tr and then, when it failed, unwind
StartDone(ok, tr, unwind, shm, sock) ==
    /\ pc' = IF ok THEN "started" ELSE "init"
    /\ sock_fd' = IF ok THEN sock ELSE sock_fd
    /\ shm_fd' = IF ok THEN shm ELSE shm_fd
    /\ open' = (open \cup OpenedBy(tr)) \ ClosedBy(unwind)
    /\ trace' = tr \o unwind
    /\ ret' = IF ok THEN 0 ELSE -1
    /\ errno' = IF ok THEN errno ELSE "EMFILE"
    /\ UNCHANGED <<cur_id, peer_list, fds, maxfd, departed, accepted, n_vectors,
                   advertised, trunc_vars>>

\* the call when step f fails ("none": no step fails by itself) and
\* ivshmem_server_ftruncate returns ft
StartRun(f, ft, shm, sock, tr) ==
    IF f = "none" /\ ft = 0
    THEN StartDone(TRUE, tr, <<>>, shm, sock)
    ELSE StartDone(FALSE, tr, StartUnwind(tr, shm, sock), shm, sock)

StartCall(f, ft, shm, sock) == StartRun(f, ft, shm, sock, StartLog(f, shm, sock, ft))

ivshmem_server_start ==
    /\ pc = "init"
    /\ \E f \in StartSteps, rej \in 0 .. MaxRejects :
        StartCall(f, FtruncateLoop(FtruncateAlign(shm_size), rej),
                  LowestFree(open, 2)[1], LowestFree(open, 2)[2])

(***************************************************************************)
(* ivshmem_server_close                                                    *)
(* The loop is QTAILQ_FOREACH, not the _SAFE form: after                   *)
(* ivshmem_server_free_peer has released the peer, the loop reads          *)
(* peer->next from the released record.  What that read yields is not      *)
(* defined: the old link ("intact"), NULL ("null"), the address of the     *)
(* record released just before ("stale": the allocator chains released     *)
(* blocks through their first word), or a fault ("crash").                 *)
(***************************************************************************)
ReadOutcomes == {"intact", "null", "stale", "crash"}

\* the reads of a loop over n peers; no record was released before the first
CloseReads(n) == {rd \in [1 .. n -> ReadOutcomes] : n >= 1 => rd[1] # "stale"}

Ended(st, crashed) ==
    [list |-> st.list, open |-> st.open, trace |-> st.trace, crashed |-> crashed]

\* the loop's step "peer = peer->next.tqe_next", taken after the body has
\* released the record of `peer`: logged as a "next" event
ReadNext(st, peer) ==
    [st EXCEPT !.trace = @ \o <<Ev("next", peer.sock_fd, peer.id, -1, 0, 0)>>]

\* the loop from the peer at position i of L, the list when close was called
RECURSIVE CloseLoop(_, _, _, _, _)
\* the loop after the body has run on L[i] and the link was read, leaving st
CloseNext(L, i, st, rd, o) ==
    IF rd[i] = "intact" THEN CloseLoop(L, i + 1, st, rd, o)
    ELSE IF rd[i] = "null" THEN Ended(st, FALSE)
    ELSE IF rd[i] = "stale"
         THEN Ended(ReadNext(ivshmem_server_free_peer(st, L[i - 1], o), L[i - 1]), TRUE)
    ELSE Ended(st, TRUE)

CloseLoop(L, i, st, rd, o) ==
    IF i > Len(L) THEN Ended(st, FALSE)
    ELSE CloseNext(L, i, ReadNext(ivshmem_server_free_peer(st, L[i], o), L[i]), rd, o)

\* unlink and the two close calls that end the function
CloseTail(O) == <<Ev("unlink", -1, -1, -1, 0, 0)>> \o CloseAll(<<sock_fd, shm_fd>>, O)

\* the state after the loop ended as lp says
CloseDone(lp, o) ==
    /\ pc' = IF lp.crashed THEN "crashed" ELSE "closed"
    /\ peer_list' = lp.list
    /\ open' = IF lp.crashed THEN lp.open ELSE lp.open \ {sock_fd, shm_fd}
    /\ trace' = IF lp.crashed THEN lp.trace ELSE lp.trace \o CloseTail(lp.open)
    /\ sock_fd' = IF lp.crashed THEN sock_fd ELSE -1
    /\ shm_fd' = IF lp.crashed THEN shm_fd ELSE -1
    /\ errno' = ErrnoAfter(errno, lp.trace, o.e)
    /\ departed' = departed \cup RemovedBy(lp.trace)
    /\ ret' = 0
    /\ UNCHANGED <<cur_id, fds, maxfd, accepted, n_vectors, advertised, trunc_vars>>

ivshmem_server_close ==
    /\ pc = "select"
    /\ \E rd \in CloseReads(Len(peer_list)) :
        \E o \in Faults((Len(peer_list) * (Len(peer_list) - 1)) \div 2) :
            CloseDone(CloseLoop(peer_list, 1,
                                [list |-> peer_list, open |-> open, trace |-> <<>>],
                                rd, o),
                      o)

(***************************************************************************)
(* The server: the state ivshmem_server_init leaves (memset to 0, empty    *)
(* peer list), then start, dispatch cycles and close.                      *)
(***************************************************************************)
ivshmem_server_init ==
    /\ pc = "init"
    /\ sock_fd = 0
    /\ shm_fd = 0
    /\ cur_id = 0
    /\ peer_list = <<>>
    /\ open = StdFds
    /\ errno = "0"
    /\ trace = <<>>
    /\ ret = 0
    /\ fds = {}
    /\ maxfd = 0
    /\ departed = {}
    /\ accepted = 0
    /\ advertised = {}
    /\ n_vectors \in 1 .. MaxVectors

Init ==
    /\ ivshmem_server_init
    /\ t_pc = "off"
    /\ t_req = {}
    /\ t_size = {}

Next ==
    \/ ivshmem_server_start
    \/ ivshmem_server_get_fds
    \/ ivshmem_server_handle_fds
    \/ ivshmem_server_close

Spec == Init /\ [][Next]_vars

(***************************************************************************)
(* ivshmem_server_ftruncate alone, on every requested size of TruncInputs. *)
(***************************************************************************)
InitTrunc ==
    /\ ivshmem_server_init
    /\ n_vectors = 1
    /\ t_pc = "entry"
    /\ t_req \in TruncInputs
    /\ t_size = t_req

NextTrunc ==
    \/ ftruncate_align
    \/ ftruncate_accept
    \/ ftruncate_reject
    \/ ftruncate_giveup

SpecTrunc == InitTrunc /\ [][NextTrunc]_vars

(***************************************************************************)
(* The server in runs in which every sendmsg transfers the whole payload,  *)
(* with the record of what each connected peer has been told.              *)
(***************************************************************************)
\* the record after the calls tr[i], tr[i + 1], ...: newsock is the socket
\* accepted in tr (-1: none) and ini the number of initial messages sent on
\* it so far.  An advertisement (an id with an eventfd) is added on its
\* socket; a notice (an id, no descriptor) withdraws the id on its socket;
\* close() of a socket ends the connection and what was told on it.
RECURSIVE Told(_, _, _, _, _)
ToldBySend(v, e, initial) ==
    IF e.ret # PayloadWidth \/ initial THEN v
    ELSE IF e.fd >= 0 THEN v \cup {<<e.sock, e.val, e.fd>>}
    ELSE {t \in v : ~(t[1] = e.sock /\ t[2] = e.val)}

Told(v, tr, i, newsock, ini) ==
    IF i > Len(tr) THEN v
    ELSE IF tr[i].op = "send"
         THEN Told(ToldBySend(v, tr[i], tr[i].sock = newsock /\ ini < 3), tr, i + 1, newsock,
                   IF tr[i].sock = newsock THEN ini + 1 ELSE ini)
    ELSE IF tr[i].op = "close"
         THEN Told({t \in v : t[1] # tr[i].fd}, tr, i + 1, newsock, ini)
    ELSE Told(v, tr, i + 1, newsock, ini)

\* the socket accept4 returned in tr, -1 when it returned none
AcceptedIn(tr) ==
    IF \E i \in 1 .. Len(tr) : tr[i].op = "accept" /\ tr[i].fd >= 0
    THEN tr[CHOOSE i \in 1 .. Len(tr) : tr[i].op = "accept" /\ tr[i].fd >= 0].fd
    ELSE -1

\* one dispatch cycle in which no sendmsg falls short; accept4 and eventfd
\* may fail as in ivshmem_server_handle_fds
handle_fds_no_loss ==
    /\ pc = "select"
    /\ \E R \in SUBSET GetFds, mfd \in {GetMaxFd - 1, GetMaxFd} :
        \E acc \in {"ok", "EINTR", "EMFILE"}, evfail \in 0 .. n_vectors :
            /\ IF sock_fd < mfd /\ sock_fd \in R
               THEN (acc = "ok" => (cur_id < MaxCurId /\ FreeFds(open) # {}))
                    /\ (acc # "ok" => evfail = 0)
               ELSE acc = "ok" /\ evfail = 0
            /\ Handled(HandleFds(R, mfd, acc, evfail, NoFault), R, mfd)
    /\ advertised' = Told(advertised, trace', 1, AcceptedIn(trace'), 0)

NextNoLoss ==
    \/ ivshmem_server_start
    \/ ivshmem_server_get_fds
    \/ handle_fds_no_loss

SpecNoLoss == Init /\ [][NextNoLoss]_vars

(***************************************************************************)
(* Reading the log of the handler that ran last                            *)
(***************************************************************************)
Events(op) == {i \in 1 .. Len(trace) : trace[i].op = op}

\* the handler accepted a connection
Accepted == \E i \in Events("accept") : trace[i].fd >= 0
\* the socket, the id and the eventfds of the connection it accepted
NewSock == trace[SetMin(Events("accept"))].fd
NewId == trace[SetMin(Events("id"))].val
NewVectors == {trace[i].fd : i \in {j \in Events("eventfd") : trace[j].fd >= 0}}
\* the handshake ended with the peer in the registry / ended at fail:
Inserted == Events("insert") # {}
Aborted == Accepted /\ ~Inserted

\* the sends of the log on socket s, in order
OnSock(e, s) == e.op = "send" /\ e.sock = s
SendsOn(s) == LET Test(e) == OnSock(e, s) IN SelectSeq(trace, Test)

Min2(a, b) == IF a <= b THEN a ELSE b

(***************************************************************************)
(* C1: no two peers that are in the registry at the same time have the     *)
(* same id, and the id a handshake assigns is held by no peer registered   *)
(* at that time: among the peers in the registry after the call only the   *)
(* new peer itself holds it, and no peer the sweep of the same call        *)
(* removed held it.                                                        *)
(***************************************************************************)
C1_UniqueIds ==
    /\ \A i, j \in 1 .. Len(peer_list) :
          i # j => peer_list[i].id # peer_list[j].id
    /\ \A e \in Events("id") :
          /\ \A i \in 1 .. Len(peer_list) :
                peer_list[i].id = trace[e].val => peer_list[i].sock_fd = trace[e].sock
          /\ trace[e].val \notin RemovedBy(trace)

\* a handshake has just added a peer to a registry that held another
C1_Witness == Inserted /\ Len(peer_list) >= 2

(***************************************************************************)
(* C2 as stated: on a fresh server where A (id 0) and then B (id 1)        *)
(* connect and B then disconnects, the next connecting peer C is assigned  *)
(* id 1.                                                                   *)
(***************************************************************************)
\* three connections were ever accepted, B (id 1) left in an earlier call,
\* and the call that just ran put the third peer behind A (id 0)
C2_Scenario ==
    /\ accepted = 3
    /\ departed = {1}
    /\ 1 \notin RemovedBy(trace)
    /\ Inserted
    /\ Len(peer_list) = 2
    /\ peer_list[1].id = 0

C3_Expected ==
    << [val |-> IVSHMEM_PROTOCOL_VERSION, fd |-> -1],
       [val |-> NewId,                    fd |-> -1],
       [val |-> -1,                       fd |-> shm_fd] >>

C3_InitialOrder ==
    Accepted =>
        LET sent == SendsOn(NewSock)
        IN  /\ \A j \in 1 .. Min2(3, Len(sent)) :
                  /\ sent[j].val = C3_Expected[j].val
                  /\ sent[j].fd = C3_Expected[j].fd
            /\ \A j \in 2 .. Len(sent) :
                  \A k \in 1 .. Min2(3, j - 1) : sent[k].res = 0
            /\ Inserted => Len(sent) >= 3

\* a second peer (id 1) has completed its handshake
C3_Witness == Inserted /\ NewId = 1 /\ Len(SendsOn(NewSock)) > 3

(***************************************************************************)
(* Reading the log tr of a call against L, the registry before the call    *)
(***************************************************************************)
EventsIn(tr, op) == {i \in 1 .. Len(tr) : tr[i].op = op}
InsertedIn(tr) == EventsIn(tr, "insert") # {}
NewSockIn(tr) == tr[SetMin(EventsIn(tr, "insert"))].sock
NewIdIn(tr) == tr[SetMin(EventsIn(tr, "insert"))].val
NewVectorsIn(tr) == {tr[i].fd : i \in {j \in EventsIn(tr, "eventfd") : tr[j].fd >= 0}}

\* which sends count: those the server issued / those that transferred a
\* message (a send that returns -1 or 0 transfers nothing)
Issued(e) == e.op = "send"
Received(e) == e.op = "send" /\ e.ret > 0

\* the sends of tr that count, on socket s, with payload v and a descriptor
Adverts(tr, s, v, Counts(_)) ==
    {j \in EventsIn(tr, "send") :
        Counts(tr[j]) /\ tr[j].sock = s /\ tr[j].val = v /\ tr[j].fd >= 0}

\* every peer of L got n_vectors messages, each with the new peer's id and a
\* different one of its eventfds; the new peer got n_vectors messages per
\* peer of L, with that peer's id and its eventfds, n_vectors messages with
\* its own id and eventfds, and no other message with an id and a descriptor
C4_Body(L, tr, Counts(_)) ==
    /\ \A i \in 1 .. Len(L) :
          /\ Cardinality(Adverts(tr, L[i].sock_fd, NewIdIn(tr), Counts)) = n_vectors
          /\ {tr[j].fd : j \in Adverts(tr, L[i].sock_fd, NewIdIn(tr), Counts)}
                = NewVectorsIn(tr)
          /\ Cardinality(Adverts(tr, NewSockIn(tr), L[i].id, Counts)) = n_vectors
          /\ {tr[j].fd : j \in Adverts(tr, NewSockIn(tr), L[i].id, Counts)}
                = Range(L[i].vectors)
    /\ Cardinality(Adverts(tr, NewSockIn(tr), NewIdIn(tr), Counts)) = n_vectors
    /\ {tr[j].fd : j \in Adverts(tr, NewSockIn(tr), NewIdIn(tr), Counts)} = NewVectorsIn(tr)
    /\ Cardinality({j \in EventsIn(tr, "send") :
                      /\ Counts(tr[j])
                      /\ tr[j].sock = NewSockIn(tr)
                      /\ tr[j].fd >= 0
                      /\ tr[j].val # -1}) = n_vectors * (Len(L) + 1)

(***************************************************************************)
(* C4 as stated: after a successful handshake of N, every peer registered  *)
(* before N has received exactly n_vectors messages, each carrying N's id  *)
(* and a distinct one of N's eventfds, and N has received exactly          *)
(* n_vectors messages per previously registered peer plus n_vectors with   *)
(* its own id and eventfds.                                                *)
(***************************************************************************)
C4_AllReceived == [][InsertedIn(trace') => C4_Body(peer_list, trace', Received)]_vars

(***************************************************************************)
(* C4 as amended: after a successful handshake of N the server has issued  *)
(* those sends, exactly n_vectors to every peer registered before N and    *)
(* n_vectors per such peer plus n_vectors to N; their results are ignored, *)
(* so a message is received only if its send succeeded.                    *)
(***************************************************************************)
C4_AllIssued == [][InsertedIn(trace') => C4_Body(peer_list, trace', Issued)]_vars

\* a handshake has completed with two peers registered before it, or with
\* one and two vectors each
C4_Witness ==
    /\ Inserted
    /\ Cardinality({i \in Events("send") : trace[i].sock # NewSock /\ trace[i].fd >= 0}) >= 2

(***************************************************************************)
(* Reading the part of a log that one ivshmem_server_free_peer wrote       *)
(***************************************************************************)
\* the "remove" events of tr that unlink a peer of L, each for the first time
Removals(L, tr) ==
    {r \in EventsIn(tr, "remove") :
        /\ \E i \in 1 .. Len(L) : L[i].id = tr[r].val
        /\ \A q \in EventsIn(tr, "remove") : q < r => tr[q].val # tr[r].val}

\* the events of the call after its "remove" event at r: up to the close of
\* the socket that opens the next call
Segment(tr, r) ==
    {j \in (r + 1) .. Len(tr) :
        \A q \in EventsIn(tr, "remove") : q > r => j < q - 1}

\* the peer of L with id v
PeerOf(L, v) == L[ivshmem_server_search_peer(L, v)]

\* the sockets of the peers in the registry right after the removal at r
RemainingAt(L, tr, r) ==
    {L[i].sock_fd : i \in {k \in 1 .. Len(L) :
                             \A q \in EventsIn(tr, "remove") : q <= r => tr[q].val # L[k].id}}
        \cup (IF InsertedIn(tr) THEN {NewSockIn(tr)} ELSE {})

\* for every peer P that a call of ivshmem_server_free_peer unlinks: each
\* remaining peer gets exactly one message that counts, with P's id and no
\* descriptor; nothing is sent to any other socket, P's included; and every
\* eventfd of P is closed, once, after all those sends
C5_Removal(tr, r, P, seg, rem, Counts(_)) ==
    /\ \A s \in rem :
          /\ Cardinality({j \in seg : Counts(tr[j]) /\ tr[j].sock = s}) = 1
          /\ \A j \in seg :
                (tr[j].op = "send" /\ tr[j].sock = s)
                    => (tr[j].val = P.id /\ tr[j].fd = -1)
    /\ \A j \in seg : tr[j].op = "send" => tr[j].sock \in rem
    /\ \A v \in Range(P.vectors) :
          /\ Cardinality({c \in seg : tr[c].op = "close" /\ tr[c].fd = v}) = 1
          /\ \A c \in seg :
                (tr[c].op = "close" /\ tr[c].fd = v)
                    => \A j \in seg : tr[j].op = "send" => j < c

C5_Body(L, tr, Counts(_)) ==
    \A r \in Removals(L, tr) :
        C5_Removal(tr, r, PeerOf(L, tr[r].val), Segment(tr, r), RemainingAt(L, tr, r), Counts)

(***************************************************************************)
(* C5 as stated: when peer P is disconnected by free_peer, every peer that *)
(* remains in the registry receives exactly one message whose payload is   *)
(* P's id and which carries no descriptor, P itself is sent nothing, and   *)
(* P's eventfds are closed only after that broadcast has been issued.      *)
(***************************************************************************)
C5_AllNotified == [][C5_Body(peer_list, trace', Received)]_vars

(***************************************************************************)
(* C5 as amended: when ivshmem_server_free_peer unlinks peer P, the server *)
(* issues to every peer that remains in the registry exactly one send      *)
(* whose payload is P's id and which carries no descriptor (its result is  *)
(* ignored, so the message is received only if that send succeeds), P      *)
(* itself is sent nothing, and P's eventfds are closed only after those    *)
(* sends have been issued.                                                 *)
(***************************************************************************)
C5_AllSentNotice == [][C5_Body(peer_list, trace', Issued)]_vars

\* a peer has been unlinked while another stayed, and the one that stayed
\* was sent the notice
C5_Witness ==
    /\ pc = "handled"
    /\ \E r \in Events("remove") :
          \E j \in Events("send") :
              /\ j > r
              /\ trace[j].val = trace[r].val
              /\ trace[j].fd = -1
              /\ \E i \in 1 .. Len(peer_list) : peer_list[i].sock_fd = trace[j].sock

(***************************************************************************)
(* C6: over every sequence of accepts, aborted handshakes, sweeps and      *)
(* server close, each accepted socket and each eventfd created for a peer  *)
(* is closed exactly once: no close() is issued on a descriptor that is    *)
(* already closed, the descriptors open besides the standard ones and the  *)
(* server's own are exactly those of the peers in the registry, and none   *)
(* of them is open once ivshmem_server_close has returned.                 *)
(***************************************************************************)
PeerFds ==
    {peer_list[i].sock_fd : i \in 1 .. Len(peer_list)}
        \cup UNION {Range(peer_list[i].vectors) : i \in 1 .. Len(peer_list)}

ServerFds == IF pc \in {"started", "select", "handled"} THEN {sock_fd, shm_fd} ELSE {}

C6_ClosedExactlyOnce ==
    pc # "crashed" =>
        /\ \A c \in Events("close") : trace[c].ret = 0
        /\ open \ (StdFds \cup ServerFds) = PeerFds
        /\ pc = "closed" => open = StdFds

(***************************************************************************)
(* C7: if a handshake ends at fail: (an eventfd could not be created, or   *)
(* one of the three initial sends failed), then each eventfd created for   *)
(* the connection and the new socket is closed, once and successfully,     *)
(* nothing else is closed but the descriptors of peers the sweep of the    *)
(* same call removed, the registry holds what it held before less the      *)
(* peers that sweep removed (and exactly what it held when the call        *)
(* returns -1), and no send to another socket carried the new peer's id    *)
(* or one of its eventfds.                                                 *)
(***************************************************************************)
AbortedIn(tr) ==
    /\ \E i \in EventsIn(tr, "accept") : tr[i].fd >= 0
    /\ ~InsertedIn(tr)

AcceptedSockIn(tr) == tr[SetMin(EventsIn(tr, "accept"))].fd
AssignedIdIn(tr) == tr[SetMin(EventsIn(tr, "id"))].val

FdsOf(p) == {p.sock_fd} \cup Range(p.vectors)

C7_Body(L, tr, L2, O2, r) ==
    /\ \A f \in NewVectorsIn(tr) \cup {AcceptedSockIn(tr)} :
          /\ Cardinality({c \in EventsIn(tr, "close") : tr[c].fd = f}) = 1
          /\ \A c \in EventsIn(tr, "close") : tr[c].fd = f => tr[c].ret = 0
          /\ f \notin O2
    /\ \A c \in EventsIn(tr, "close") :
          \/ tr[c].fd \in NewVectorsIn(tr) \cup {AcceptedSockIn(tr)}
          \/ \E i \in 1 .. Len(L) : L[i].id \in RemovedBy(tr) /\ tr[c].fd \in FdsOf(L[i])
    /\ LET Stays(p) == p.id \notin RemovedBy(tr) IN L2 = SelectSeq(L, Stays)
    /\ r = -1 => L2 = L
    /\ \A j \in EventsIn(tr, "send") :
          tr[j].sock # AcceptedSockIn(tr)
              => (tr[j].val # AssignedIdIn(tr) /\ tr[j].fd \notin NewVectorsIn(tr))

C7_AbortUnwinds ==
    [][AbortedIn(trace') => C7_Body(peer_list, trace', peer_list', open', ret')]_vars

\* a handshake was aborted at its second eventfd, with a peer registered
C7_Witness ==
    /\ Aborted
    /\ NewVectors # {}
    /\ \E i \in Events("eventfd") : trace[i].fd = -1
    /\ Len(peer_list) >= 1

(***************************************************************************)
(* C8: a handshake that fails after a successful accept is local to that   *)
(* connection: the dispatch cycle returns 0 and has reaped every ready     *)
(* peer socket; the cycle returns -1 only when accept itself failed with   *)
(* an error other than EINTR.                                              *)
(***************************************************************************)
C8_AbortIsLocal ==
    pc = "handled" =>
        /\ Aborted =>
              /\ ret = 0
              /\ \A i \in 1 .. Len(peer_list) :
                    ~(peer_list[i].sock_fd < maxfd /\ peer_list[i].sock_fd \in fds)
        /\ ret = -1 =>
              /\ \E a \in Events("accept") : trace[a].fd = -1
              /\ errno # "EINTR"

(***************************************************************************)
(* C9: ivshmem_server_send_one_msg reports success exactly when sendmsg    *)
(* transferred the whole payload: an error, a zero-byte write and a        *)
(* partial write all give -1.                                              *)
(***************************************************************************)
C9_ShortWriteFails ==
    \A j \in Events("send") :
        /\ trace[j].res \in {0, -1}
        /\ trace[j].res = 0 <=> trace[j].ret = PayloadWidth

(***************************************************************************)
(* C10: for every requested size, ivshmem_server_ftruncate either sizes    *)
(* the object to a power of two that is >= the requested size and <= 1 GiB *)
(* (the smallest one, or a later one when the storage rejected sizes), or  *)
(* fails; it returns success only if the smallest power of two >= the      *)
(* requested size does not exceed 1 GiB, and never with a size smaller     *)
(* than the requested size.                                                *)
(***************************************************************************)
\* the smallest power of two >= u (bit 32 for 2^32)
SmallestPow2Geq(u) ==
    IF u = {} THEN {0}
    ELSE IF Cardinality(u) = 1 THEN u
    ELSE {SetMax(u) + 1}

C10_Provision ==
    t_pc = "ok" =>
        /\ Cardinality(t_size) = 1
        /\ BvLeq(t_req, t_size)
        /\ BvLeq(SmallestPow2Geq(t_req), t_size)
        /\ BvLeq(t_size, IVSHMEM_SERVER_MAX_HUGEPAGE_SIZE)

(***************************************************************************)
(* C11: ivshmem_server_close, called with any number n >= 0 of registered  *)
(* peers, returns, having torn down each of the n peers exactly once       *)
(* through ivshmem_server_free_peer without reading a peer record after    *)
(* its release, and leaves an empty registry, the socket path unlinked     *)
(* and the listening socket and the shared-memory descriptor closed.       *)
(***************************************************************************)
C11_CloseTearsDown ==
    pc \in {"closed", "crashed"} =>
        /\ pc = "closed"
        /\ Events("next") = {}
        /\ \A r, q \in Events("remove") : trace[r].val = trace[q].val => r = q
        /\ peer_list = <<>>
        /\ Events("unlink") # {}
        /\ sock_fd = -1 /\ shm_fd = -1
        /\ open = StdFds

(***************************************************************************)
(* C12: in every state outside the interval between a successful           *)
(* ivshmem_server_start and the following ivshmem_server_close (after      *)
(* init and before start, after a failed start, after close) the fields    *)
(* sock_fd and shm_fd hold the invalid sentinel -1.                        *)
(***************************************************************************)
C12_SentinelOutside ==
    pc \in {"init", "closed"} => (sock_fd = -1 /\ shm_fd = -1)

(***************************************************************************)
(* Sends of one call to the peers that were registered when it began       *)
(***************************************************************************)
PeerSocks(L) == {L[i].sock_fd : i \in 1 .. Len(L)}

\* the sends of tr on the socket of a peer that is in the registry when the
\* send is made: a peer of L, the registry when the call began, or the new
\* peer once it is inserted
ToRegistered(L, tr) ==
    {j \in EventsIn(tr, "send") :
        \/ tr[j].sock \in PeerSocks(L)
        \/ \E k \in EventsIn(tr, "insert") : k < j /\ tr[j].sock = tr[k].sock}

\* the send at j is a disconnection notice: no descriptor, and the id of a
\* peer unlinked before it
IsNotice(tr, j) ==
    /\ tr[j].fd = -1
    /\ \E r \in EventsIn(tr, "remove") : r < j /\ tr[r].val = tr[j].val

\* the send at j advertises the peer whose handshake is under way
IsNewPeerAdvert(tr, j) ==
    /\ EventsIn(tr, "id") # {}
    /\ tr[j].val = AssignedIdIn(tr)
    /\ tr[j].fd \in NewVectorsIn(tr)
    /\ \A k \in EventsIn(tr, "insert") : j < k

\* nothing but sendmsg and close is called on a registered peer's socket
NeverRead(L, tr) ==
    \A i \in 1 .. Len(tr) :
        (tr[i].sock \in PeerSocks(L) \/ tr[i].fd \in PeerSocks(L))
            => tr[i].op \in {"send", "close", "remove", "next"}

(***************************************************************************)
(* C13 as stated: once a peer is in the registry, the only messages the    *)
(* server sends on its socket are disconnection notices (the id of a       *)
(* departed peer, no descriptor), and the server never reads from a peer   *)
(* socket.                                                                 *)
(***************************************************************************)
C13_OnlyNotices ==
    [][/\ \A j \in ToRegistered(peer_list, trace') : IsNotice(trace', j)
       /\ NeverRead(peer_list, trace')]_vars

(***************************************************************************)
(* C13 as amended: once a peer is in the registry, the only messages the   *)
(* server sends on its socket are the advertisements of a peer that        *)
(* connects later (that peer's id with one of its eventfds, sent before    *)
(* the new peer is inserted) and disconnection notices (the id of a        *)
(* departed peer, no descriptor); the server never reads from a peer       *)
(* socket.                                                                 *)
(***************************************************************************)
C13_NoticesAndNewPeers ==
    [][/\ \A j \in ToRegistered(peer_list, trace') :
             IsNotice(trace', j) \/ IsNewPeerAdvert(trace', j)
       /\ NeverRead(peer_list, trace')]_vars

\* in one cycle a registered peer was sent the advertisement of a new peer
\* and then the notice of another peer's departure
C13_Witness ==
    /\ pc = "handled"
    /\ Inserted
    /\ \E j, k \in Events("send") :
          /\ j < k
          /\ trace[j].sock = trace[k].sock
          /\ trace[j].sock # NewSock
          /\ trace[j].fd >= 0 /\ trace[j].val = NewId
          /\ IsNotice(trace, k)

(***************************************************************************)
(* C14: if ivshmem_server_start fails at any step (shm_open, the sizing,   *)
(* socket, the path copy, bind, listen), every descriptor it had opened    *)
(* is closed, once, before it returns -1, no other descriptor is closed,   *)
(* and the fields sock_fd and shm_fd are as they were before the call.     *)
(***************************************************************************)
C14_Body(tr, O, O2) ==
    /\ \A f \in OpenedBy(tr) :
          /\ Cardinality({c \in EventsIn(tr, "close") : tr[c].fd = f /\ tr[c].ret = 0}) = 1
          /\ f \notin O2
    /\ \A c \in EventsIn(tr, "close") : tr[c].fd \in OpenedBy(tr) /\ tr[c].ret = 0
    /\ O2 = O

C14_FailedStartUnwinds ==
    [][(pc = "init" /\ ret' = -1)
          => /\ C14_Body(trace', open, open')
             /\ sock_fd' = sock_fd
             /\ shm_fd' = shm_fd
             /\ pc' = "init"]_vars

\* start failed at listen(), with both descriptors opened and closed again
C14_Witness ==
    /\ pc = "init"
    /\ ret = -1
    /\ \E i \in Events("listen") : trace[i].ret = -1
    /\ Cardinality(Events("close")) = 2

(***************************************************************************)
(* The order of the sends of one handshake                                 *)
(***************************************************************************)
IsSend(e) == e.op = "send"
IsCreated(e) == e.op = "eventfd" /\ e.fd >= 0

\* what a send carries: socket, payload, descriptor
Wire(e) == <<e.sock, e.val, e.fd>>
Wires(q) == [i \in 1 .. Len(q) |-> Wire(q[i])]

\* the eventfds of the new peer, in index order
CreatedIn(tr) == [i \in 1 .. Len(SelectSeq(tr, IsCreated)) |-> SelectSeq(tr, IsCreated)[i].fd]

\* the sends of the handshake logged in tr: those before the insertion, or
\* before the first close() of the unwind when there is none
HandshakeEnd(tr) ==
    IF InsertedIn(tr) THEN SetMin(EventsIn(tr, "insert"))
    ELSE IF EventsIn(tr, "close") # {} THEN SetMin(EventsIn(tr, "close"))
    ELSE Len(tr) + 1

HandshakeSends(tr) == Wires(SelectSeq(SubSeq(tr, 1, HandshakeEnd(tr) - 1), IsSend))

\* the order C15 states, for new peer with socket s, id and eventfds vec,
\* L being the registry in connection order
C15_Order(L, s, id, vec) ==
    <<<<s, IVSHMEM_PROTOCOL_VERSION, -1>>, <<s, id, -1>>, <<s, -1, shm_fd>>>>
        \o [q \in 1 .. (Len(L) * Len(vec)) |->
               <<L[((q - 1) \div Len(vec)) + 1].sock_fd, id, vec[((q - 1) % Len(vec)) + 1]>>]
        \o [q \in 1 .. (Len(L) * Len(vec)) |->
               <<s, L[((q - 1) \div Len(vec)) + 1].id,
                 L[((q - 1) \div Len(vec)) + 1].vectors[((q - 1) % Len(vec)) + 1]>>]
        \o [q \in 1 .. Len(vec) |-> <<s, id, vec[q]>>]

IsPrefix(p, q) == Len(p) <= Len(q) /\ p = SubSeq(q, 1, Len(p))

C15_Body(L, tr, L2, s, id, vec) ==
    /\ IsPrefix(HandshakeSends(tr), C15_Order(L, s, id, vec))
    /\ InsertedIn(tr) =>
          /\ HandshakeSends(tr) = C15_Order(L, s, id, vec)
          /\ s \notin PeerSocks(L)
          /\ L2 # <<>>
          /\ L2[Len(L2)] = [id |-> id, sock_fd |-> s, vectors |-> vec]

(***************************************************************************)
(* C15: within one handshake the sends occur in this order: the three      *)
(* initial messages to the new peer; for each registered peer in           *)
(* connection order, the new peer's vectors in index order to that peer;   *)
(* on the new socket, for each registered peer in connection order, that   *)
(* peer's vectors in index order; the new peer's own vectors in index      *)
(* order.  The new peer is inserted at the tail of the registry only after *)
(* all these sends, so it is no recipient of the broadcast to the          *)
(* registered peers; an aborted handshake has made a prefix of the three   *)
(* initial sends.                                                          *)
(***************************************************************************)
C15_HandshakeOrder ==
    [][EventsIn(trace', "id") # {}
          => C15_Body(peer_list, trace', peer_list', AcceptedSockIn(trace'),
                      AssignedIdIn(trace'), CreatedIn(trace'))]_vars

\* a peer with two vectors completed its handshake, a peer being registered,
\* every send having gone through
C15_Witness ==
    /\ pc = "handled"
    /\ Inserted
    /\ n_vectors = 2
    /\ Len(peer_list) = 2
    /\ \A j \in Events("send") : trace[j].ret = PayloadWidth
    /\ Cardinality({j \in Events("send") : trace[j].sock # NewSock}) = 2

(***************************************************************************)
(* C16: in every dispatch cycle the listening socket is serviced before    *)
(* any peer socket and the cycle then sweeps the whole registry; an        *)
(* accept4 that fails with EINTR is swallowed (the sweep runs, the cycle   *)
(* returns 0), and an accept4 that fails otherwise makes the cycle return  *)
(* -1, the only case in which the sweep is not made.                       *)
(***************************************************************************)
\* no peer whose socket was ready is left in the registry
Swept ==
    \A i \in 1 .. Len(peer_list) :
        ~(peer_list[i].sock_fd < maxfd /\ peer_list[i].sock_fd \in fds)

AcceptFailed == \E a \in Events("accept") : trace[a].fd = -1

C16_ListenThenSweep ==
    pc = "handled" =>
        /\ \A a \in Events("accept"), r \in Events("remove") : a < r
        /\ ret = 0 => Swept
        /\ ret = -1 => (AcceptFailed /\ errno # "EINTR")
        /\ (AcceptFailed /\ ret = 0 /\ \A j \in Events("send") : trace[j].ret > 0)
              => errno = "EINTR"

(***************************************************************************)
(* C17: a dispatch cycle that completes its sweep (returns 0) with ready   *)
(* set R and bound maxfd tears down, once each, exactly the registered     *)
(* peers whose socket is in R and below maxfd, also when adjacent peers    *)
(* are ready; every other peer stays in the registry with its id, socket   *)
(* and eventfds unchanged and open, in the same relative order (a peer     *)
(* inserted by the same cycle coming last).                                *)
(***************************************************************************)
\* the registry once the handshake of the cycle, if any, is over
AfterHandshake(L, tr) ==
    IF InsertedIn(tr)
    THEN Append(L, [id |-> AssignedIdIn(tr), sock_fd |-> AcceptedSockIn(tr),
                    vectors |-> CreatedIn(tr)])
    ELSE L

C17_Body(Reg, tr, L2, R, mfd, O2) ==
    LET Ready(p) == p.sock_fd < mfd /\ p.sock_fd \in R
        Stays(p) == ~Ready(p)
    IN  /\ L2 = SelectSeq(Reg, Stays)
        /\ RemovedBy(tr) = {Reg[i].id : i \in {k \in 1 .. Len(Reg) : Ready(Reg[k])}}
        /\ \A r, q \in EventsIn(tr, "remove") : tr[r].val = tr[q].val => r = q
        /\ \A i \in 1 .. Len(L2) : FdsOf(L2[i]) \subseteq O2
        /\ \A i \in 1 .. Len(Reg) : Ready(Reg[i]) => FdsOf(Reg[i]) \cap O2 = {}

C17_SweepExact ==
    [][(pc = "select" /\ pc' = "handled" /\ ret' = 0)
          => C17_Body(AfterHandshake(peer_list, trace'), trace', peer_list',
                      fds', maxfd', open')]_vars

\* two adjacent peers were torn down in one sweep, a third one staying
C17_Witness ==
    /\ pc = "handled"
    /\ ret = 0
    /\ \E r, q \in Events("remove") : trace[r].val + 1 = trace[q].val
    /\ Len(peer_list) >= 1

(***************************************************************************)
(* C18: the sizing loop of ivshmem_server_ftruncate terminates for every   *)
(* requested size and every pattern of rejections: every size it offers    *)
(* to ftruncate() is a power of two not exceeding 1 GiB, and the size that *)
(* follows a rejected one is strictly greater (so the loop leaves the      *)
(* range after finitely many rejections).                                  *)
(***************************************************************************)
C18_CandidatesGrow ==
    (t_pc = "loop" /\ BvLeq(t_size, IVSHMEM_SERVER_MAX_HUGEPAGE_SIZE)) =>
        /\ Cardinality(t_size) = 1
        /\ ~BvLeq(BvDouble(t_size), t_size)

(***************************************************************************)
(* C20: absent counter overflow, in every reachable state every registered *)
(* peer's id is strictly less than cur_id, so the probe of the id          *)
(* allocation does not advance the counter; every accepted connection,     *)
(* also one whose handshake is then aborted, has consumed one counter      *)
(* value; and the registry is strictly increasing in id along connection   *)
(* order.                                                                  *)
(***************************************************************************)
C20_IdsBelowCounter ==
    /\ \A i \in 1 .. Len(peer_list) : peer_list[i].id < cur_id
    /\ AllocId(peer_list, cur_id) = cur_id
    /\ cur_id = accepted
    /\ \A i, j \in 1 .. Len(peer_list) : i < j => peer_list[i].id < peer_list[j].id

\* two peers are registered whose ids are not consecutive although no peer
\* has left: the handshake in between was aborted
C20_Witness ==
    /\ Len(peer_list) = 2
    /\ departed = {}
    /\ peer_list[2].id = peer_list[1].id + 2
    /\ cur_id = accepted

(***************************************************************************)
(* C19: in every run in which no send fails, at the end of every dispatch  *)
(* cycle each registered peer Q has a consistent view of the registry:     *)
(* the ids Q has been sent advertisements for, with no later notice, are   *)
(* the ids in the registry (Q's own included), and for each of them the    *)
(* eventfds Q was sent are exactly that peer's eventfds.                   *)
(***************************************************************************)
ToldIds(s) == {t[2] : t \in {u \in advertised : u[1] = s}}
ToldHandles(s, id) == {t[3] : t \in {u \in advertised : u[1] = s /\ u[2] = id}}

C19_ConsistentView ==
    pc = "handled" =>
        \A i \in 1 .. Len(peer_list) :
            /\ ToldIds(peer_list[i].sock_fd) = {peer_list[j].id : j \in 1 .. Len(peer_list)}
            /\ \A j \in 1 .. Len(peer_list) :
                  ToldHandles(peer_list[i].sock_fd, peer_list[j].id)
                      = Range(peer_list[j].vectors)

\* a cycle has ended with two peers registered after a third one left, each
\* of the two having been told of the other and of itself only
C19_Witness ==
    /\ pc = "handled"
    /\ Len(peer_list) = 2
    /\ departed # {}
    /\ \A i \in 1 .. 2 : Cardinality(ToldIds(peer_list[i].sock_fd)) = 2

====
